---- MODULE Spec2Model ----
(***************************************************************************)
(* Model of the sweep engine of sqm (src/src/sqm/runner.py) together with  *)
(* the configuration (config.py), the binary reader (fortran_io.py) and    *)
(* the jackknife estimator (read_dat_mod.py).                              *)
(*                                                                         *)
(* Floating point parameter values are integers counted in units of 1e-11, *)
(* so that round(x, 10) is rounding to a multiple of 10.  An optional      *)
(* value (Python None or a value) is the empty or the one-element tuple.   *)
(***************************************************************************)
EXTENDS Integers, Sequences, FiniteSets, TLC

\* ------------------------------------------------------------------ bounds
\* largest number of grid points of a sweep
MaxPoints == 2

\* ------------------------------------------------------- program constants
\* os.cpu_count() of the machine
CpuCount == 2
\* smallest and largest lattice size read_dat accepts
NxMin == 1
NxMax == 1000
\* bytes of the header record: 4 + (4 + 8 + 8 + 4) + 4
HeaderBytes == 32

\* ---------------------------------------------------------- optional values
None == <<>>
Some(v) == <<v>>
IsNone(o) == o = <<>>
Val(o) == o[1]

\* --------------------------------------------------------------- SweepConfig
\* all(v is not None for v in [start, end, step])
HasSweep(start, end, step) == ~IsNone(start) /\ ~IsNone(end) /\ ~IsNone(step)

has_mu_sweep(c) == HasSweep(c.mu_start, c.mu_end, c.mu_step)
has_U_sweep(c) == HasSweep(c.U_start, c.U_end, c.U_step)

\* __post_init__ without the check of two sweep ranges
post_init_one_check(c) ==
    IF ~IsNone(c.U) /\ ~IsNone(c.mu) /\ ~has_mu_sweep(c) /\ ~has_U_sweep(c)
    THEN Some("ValueError:both_fixed")
    ELSE None

\* SweepConfig.__post_init__: the error it raises, or None
post_init(c) ==
    IF has_mu_sweep(c) /\ has_U_sweep(c) THEN Some("ValueError:both_swept")
    ELSE IF ~IsNone(c.U) /\ ~IsNone(c.mu) /\ ~has_mu_sweep(c) /\ ~has_U_sweep(c)
         THEN Some("ValueError:both_fixed")
         ELSE None

\* SweepConfig.sweep_param
sweep_param(c) == IF has_mu_sweep(c) THEN "mu" ELSE "U"

\* Python round(x, 10) on a value counted in units of 1e-11: the nearest
\* multiple of 10, a tie going to the even multiple.
Round10(x) ==
    LET q == x \div 10
        r == x % 10
    IN  IF r < 5 THEN 10 * q
        ELSE IF r > 5 THEN 10 * (q + 1)
        ELSE IF q % 2 = 0 THEN 10 * q ELSE 10 * (q + 1)

\* the while loop of sweep_values.  When rounding returns the loop variable
\* unchanged the loop repeats the same iteration for ever: "diverges".
RECURSIVE SweepLoop(_, _, _, _)
SweepLoop(current, end, step, values) ==
    IF ~(current < end) THEN [kind |-> "ok", values |-> values]
    ELSE LET nxt == Round10(current + step)
         IN  IF nxt = current THEN [kind |-> "diverges", values |-> <<>>]
             ELSE SweepLoop(nxt, end, step, Append(values, current))

\* one branch of SweepConfig.sweep_values
SweepRange(start, end, step) ==
    IF IsNone(start) \/ IsNone(end) \/ IsNone(step)
    THEN [kind |-> "ValueError:missing", values |-> <<>>]
    ELSE IF Val(step) <= 0
         THEN [kind |-> "ValueError:step", values |-> <<>>]
         ELSE SweepLoop(Val(start), Val(end), Val(step), <<>>)

\* SweepConfig.sweep_values
sweep_values(c) ==
    IF sweep_param(c) = "mu"
    THEN SweepRange(c.mu_start, c.mu_end, c.mu_step)
    ELSE SweepRange(c.U_start, c.U_end, c.U_step)

\* _build_param_grid: the grid of (U, mu) pairs, the swept axis, the fixed value
build_param_grid(c) ==
    LET sv == sweep_values(c)
        name == sweep_param(c)
        fixed == IF name = "mu"
                 THEN (IF ~IsNone(c.U) THEN Val(c.U) ELSE 0)
                 ELSE (IF ~IsNone(c.mu) THEN Val(c.mu) ELSE 0)
    IN  [kind |-> sv.kind,
         grid |-> [i \in 1..Len(sv.values) |->
                     IF name = "mu" THEN <<fixed, sv.values[i]>>
                     ELSE <<sv.values[i], fixed>>],
         sweep_name |-> name,
         fixed_value |-> fixed]

\* ------------------------------------------------- numbers (IEEE behaviour)
\* A float is a fraction n/d with d >= 0 that is never reduced: d = 0 with
\* n # 0 is an infinity and 0/0 is NaN.  The fraction arithmetic below then
\* gives numpy's results: 0/0 = NaN, NaN propagates, 0 * inf = NaN.
Fr(n, d) == [n |-> n, d |-> d]
FInt(k) == Fr(k, 1)
IsNaN(x) == x.n = 0 /\ x.d = 0
FSub(x, y) == Fr(x.n * y.d - y.n * x.d, x.d * y.d)
FMul(x, y) == Fr(x.n * y.n, x.d * y.d)
\* numpy division of a float by an integer: no exception on a zero divisor
FDivInt(x, k) == IF k >= 0 THEN Fr(x.n, x.d * k) ELSE Fr(-x.n, x.d * (-k))
FEq(x, y) == ~IsNaN(x) /\ ~IsNaN(y) /\ x.n * y.d = y.n * x.d

\* the sum of a sequence of whole numbers, by halves
RECURSIVE SumSeq(_)
SumSeq(s) ==
    IF Len(s) = 0 THEN 0
    ELSE IF Len(s) = 1 THEN s[1]
    ELSE SumSeq(SubSeq(s, 1, Len(s) \div 2)) + SumSeq(SubSeq(s, Len(s) \div 2 + 1, Len(s)))

\* x + y; two fractions over one denominator add without widening it
FAdd(x, y) ==
    IF IsNaN(x) \/ IsNaN(y) THEN Fr(0, 0)
    ELSE IF x.d = y.d THEN Fr(x.n + y.n, x.d)
    ELSE Fr(x.n * y.d + y.n * x.d, x.d * y.d)

\* ------------------------------------------------------ rounding of floats
\* Every float operation rounds its exact result to the nearest value of the
\* format, ties to even.  The format here has MantissaBits significant bits
\* where a double has 53; infinities and NaN pass through.
MantissaBits == 3

Pow2(k) == 2^k
Abs(k) == IF k < 0 THEN -k ELSE k

\* round-half-even of num / den, both positive
RoundHalfEven(num, den) ==
    LET q == num \div den
        r == num - q * den
    IN  IF 2 * r < den THEN q
        ELSE IF 2 * r > den THEN q + 1
        ELSE IF q % 2 = 0 THEN q ELSE q + 1

\* the exponents tried: the values that occur lie well inside them
Exponents == (-12)..12

Fl(x) ==
    IF x.d = 0 THEN x
    ELSE IF x.n = 0 THEN FInt(0)
    ELSE LET a == Abs(x.n)
             num(e) == IF e >= 0 THEN a ELSE a * Pow2(-e)
             den(e) == IF e >= 0 THEN x.d * Pow2(e) ELSE x.d
             e == CHOOSE k \in Exponents :
                     /\ Pow2(MantissaBits - 1) * den(k) <= num(k)
                     /\ num(k) < Pow2(MantissaBits) * den(k)
             m == RoundHalfEven(num(e), den(e))
             sm == IF x.n < 0 THEN -m ELSE m
         IN  IF e >= 0 THEN Fr(sm * Pow2(e), 1) ELSE Fr(sm, Pow2(-e))

\* The rounding of an operation's result: "exact" is what the operations of
\* a double give where every intermediate value is representable, "float"
\* rounds to the format above.
Round(mode, x) == IF mode = "exact" THEN x ELSE Fl(x)

\* np.sum of an array: the elements are added in order, each addition
\* rounded.  Where no addition rounds and the elements are fractions over one
\* non-zero denominator, the additions give the sum of the numerators over it.
FlSum(s, mode) ==
    LET acc[k \in 0..Len(s)] ==
            IF k = 0 THEN FInt(0) ELSE Round(mode, FAdd(acc[k - 1], s[k]))
    IN  IF /\ mode = "exact"
           /\ Len(s) > 0
           /\ \A i \in 1..Len(s) : s[i].d = s[1].d /\ s[i].d # 0
        THEN Fr(SumSeq([i \in 1..Len(s) |-> s[i].n]), s[1].d)
        ELSE acc[Len(s)]

\* ----------------------------------------------------------------- jackknife
\* jackknife(arr) on real samples, operation by operation, each rounded as
\* mode says.  err is kept as its square, err_sq = (n - 1) * var, the square
\* root being monotone, exact at 0 and NaN-preserving.  total / n is a Python
\* float division: it raises on n = 0.  (total - arr) / (n - 1) is a numpy
\* division: on n = 1 it yields NaN and goes on.  As each statement of the
\* code assigns its value before the next one runs, each step here binds the
\* value it computed (the one element of a set) and arrays are held as
\* sequences.
JackknifeRounding(arr, mode) ==
    LET n == Len(arr)
        Err(jk_mm, var) ==
            [exc |-> None, mean |-> jk_mm,
             err_sq |-> Round(mode, FMul(FInt(n - 1), var))]
        Var(jk_mm, sq) ==
            CHOOSE r \in {Err(jk_mm, var) :
                            var \in {Round(mode, FDivInt(FlSum(sq, mode), n))}} : TRUE
        Squares(jk_mm, dev) ==
            CHOOSE r \in {Var(jk_mm, sq) :
                            sq \in {SubSeq([i \in 1..n |-> Round(mode, FMul(dev[i], dev[i]))],
                                           1, n)}} : TRUE
        Deviations(jk_mean, jk_mm) ==
            CHOOSE r \in {Squares(jk_mm, dev) :
                            dev \in {SubSeq([i \in 1..n |->
                                               Round(mode, FSub(jk_mean[i], jk_mm))],
                                            1, n)}} : TRUE
        JkMm(total, jk_mean) ==
            IF n = 0
            THEN [exc |-> Some("ZeroDivisionError"), mean |-> FInt(0), err_sq |-> FInt(0)]
            ELSE CHOOSE r \in {Deviations(jk_mean, jk_mm) :
                                 jk_mm \in {Round(mode, FDivInt(total, n))}} : TRUE
        JkMean(total) ==
            CHOOSE r \in {JkMm(total, jk_mean) :
                            jk_mean \in {SubSeq([i \in 1..n |->
                                Round(mode, FDivInt(Round(mode, FSub(total, FInt(arr[i]))),
                                                    n - 1))], 1, n)}} : TRUE
    IN  CHOOSE r \in {JkMean(total) :
                        total \in {FlSum([i \in 1..n |-> FInt(arr[i])], mode)}} : TRUE

\* the samples of the sweeps tried are small whole numbers, on which the
\* operations of a double are exact
jackknife(arr) == JackknifeRounding(arr, "exact")

\* real part of the product of two complex numbers <<re, im>>
ReMul(x, y) == x[1] * y[1] - x[2] * y[2]

\* compute_correlation: jackknife of Re(a_i[0] * a_ast_i[x]) for each offset x
\* (offsets are 1-based here).  The first jackknife that raises ends it.
compute_correlation(a_list, a_ast_list, Nx) ==
    LET N == Len(a_list)
        Collect(jk) ==
            IF \E x \in 1..Nx : ~IsNone(jk[x].exc)
            THEN [exc |-> jk[CHOOSE x \in 1..Nx : ~IsNone(jk[x].exc)
                                  /\ \A y \in 1..(x - 1) : IsNone(jk[y].exc)].exc,
                  corr_mean |-> <<>>, corr_err_sq |-> <<>>]
            ELSE [exc |-> None,
                  corr_mean |-> [x \in 1..Nx |-> jk[x].mean],
                  corr_err_sq |-> [x \in 1..Nx |-> jk[x].err_sq]]
    IN  Collect([x \in 1..Nx |->
                   jackknife([i \in 1..N |-> ReMul(a_list[i][1], a_ast_list[i][x])])])

\* ----------------------------------------------------------- autocorrelation
\* A series is a non-empty sequence of integers: on these the mean, the
\* variance and the autocovariance are exact, and a value of the function is
\* a fraction.  All values of one autocorrelation function share one
\* denominator.
MinOf(S) == CHOOSE m \in S : \A k \in S : m <= k
Min2(x, y) == IF x <= y THEN x ELSE y

\* np.var(data) == 0.0
VarIsZero(data) == \A i \in DOMAIN data : data[i] = data[1]

\* n * (data - mean), which keeps the values whole
Centred(data) ==
    LET n == Len(data)
        total == SumSeq(data)
    IN  [i \in 1..n |-> n * data[i] - total]

\* the zero-padded transform gives the linear autocovariance: entry k of
\* acf_full (lag k - 1) is the sum of x[i] * x[i + k - 1] over the n - k + 1
\* pairs that exist, divided by entry 1
acf_full(x) ==
    LET n == Len(x)
        c0 == SumSeq([i \in 1..n |-> x[i] * x[i]])
    IN  [k \in 1..n |->
           Fr(SumSeq([i \in 1..(n - k + 1) |-> x[i] * x[i + k - 1]]), c0)]

\* autocorrelation(data, max_lag): entry k is rho(k - 1).  The slice
\* acf_full[: max_lag + 1] cannot be longer than acf_full.
autocorrelation(data, max_lag) ==
    LET n == Len(data)
        ml == IF IsNone(max_lag) THEN n - 1 ELSE Val(max_lag)
    IN  IF VarIsZero(data)
        THEN [k \in 1..(ml + 1) |-> FInt(1)]
        ELSE SubSeq(acf_full(Centred(data)), 1, Min2(ml + 1, n))

\* tau_cumsum = 0.5 + np.cumsum(acf[1:]): entry k here is tau_cumsum[k - 1]
\* of the code, the sum 0.5 + rho(1) + ... + rho(k)
tau_cumsum(acf) ==
    [k \in 1..(Len(acf) - 1) |->
       Fr(acf[1].d + 2 * SumSeq([i \in 1..k |-> acf[i + 1].n]), 2 * acf[1].d)]

\* Sokal's constant c
window_c == 5

\* _auto_window: the first m in range(1, len(tau_cumsum)) with
\* m >= c * tau_cumsum[m], which is entry m + 1 here; else len - 1
auto_window(tc) ==
    LET hits == {m \in 1..(Len(tc) - 1) :
                   m * tc[m + 1].d >= window_c * tc[m + 1].n}
    IN  IF hits # {} THEN MinOf(hits) ELSE Len(tc) - 1

\* integrated_autocorr_time: tau_cumsum[window - 1] of the code is entry
\* window here
integrated_autocorr_time(data) ==
    LET n == Len(data)
        max_lag == Min2(n - 1, n \div 2)
        tc == tau_cumsum(autocorrelation(data, Some(max_lag)))
        window == auto_window(tc)
    IN  IF window >= 1 THEN tc[window] ELSE Fr(1, 2)

\* effective_sample_size: n / (2.0 * tau) divides two Python floats and
\* raises on tau == 0.0; max(1.0, n_eff) follows
effective_sample_size(data) ==
    LET n == Len(data)
        tau == integrated_autocorr_time(data)
    IN  IF tau.n = 0
        THEN [exc |-> Some("ZeroDivisionError"), value |-> FInt(0)]
        ELSE LET n_eff == IF tau.n > 0 THEN Fr(n * tau.d, 2 * tau.n)
                          ELSE Fr(-(n * tau.d), -(2 * tau.n))
             IN  [exc |-> None,
                  value |-> IF n_eff.n > n_eff.d THEN n_eff ELSE FInt(1)]

\* detect_thermalization.  With W the window sums, k the number of
\* stationary windows and T their sum, a window's signed deviation from the
\* stationary mean is Dev / (k * window_size) and the stationary variance is
\* ssq / (k^3 * window_size^2), so "deviation <= 3 * std" is
\* k * Dev^2 <= 9 * ssq.  On whole numbers std < 1e-15 means std = 0 and
\* deviation <= 1e-10 means deviation = 0.
detect_thermalization_single(data, window_size) ==
    LET n == Len(data)
        n_windows == n \div window_size
        W == [i \in 1..n_windows |->
                SumSeq(SubSeq(data, (i - 1) * window_size + 1, i * window_size))]
        stationary_start == n_windows \div 2
        k == n_windows - stationary_start
        T == SumSeq([i \in 1..k |-> W[stationary_start + i]])
        Dev(i) == k * W[i] - T
        ssq == SumSeq([i \in 1..k |-> Dev(stationary_start + i) * Dev(stationary_start + i)])
        Within(i) == IF ssq = 0 THEN Dev(i) = 0
                     ELSE k * Dev(i) * Dev(i) <= 9 * ssq
        n_consecutive == 1
        runs == {i \in 0..(n_windows - n_consecutive) :
                   \A q \in 1..n_consecutive : Within(i + q)}
    IN  IF n < 2 * window_size THEN 0
        ELSE IF n_windows < 3 THEN 0
        ELSE IF runs # {} THEN MinOf(runs) * window_size
        ELSE stationary_start * window_size
detect_thermalization(data, window_size) ==
    LET n == Len(data)
        n_windows == n \div window_size
        W == [i \in 1..n_windows |->
                SumSeq(SubSeq(data, (i - 1) * window_size + 1, i * window_size))]
        stationary_start == n_windows \div 2
        k == n_windows - stationary_start
        T == SumSeq([i \in 1..k |-> W[stationary_start + i]])
        Dev(i) == k * W[i] - T
        ssq == SumSeq([i \in 1..k |-> Dev(stationary_start + i) * Dev(stationary_start + i)])
        Within(i) == IF ssq = 0 THEN Dev(i) = 0
                     ELSE k * Dev(i) * Dev(i) <= 9 * ssq
        n_consecutive == Min2(3, n_windows \div 3)
        runs == {i \in 0..(n_windows - n_consecutive) :
                   \A q \in 1..n_consecutive : Within(i + q)}
    IN  IF n < 2 * window_size THEN 0
        ELSE IF n_windows < 3 THEN 0
        ELSE IF runs # {} THEN MinOf(runs) * window_size
        ELSE stationary_start * window_size

\* corrected_error: error = sqrt(var * scale) with var = np.var(data, ddof=1)
\* and scale = 2 * tau / n, kept as its two factors; no step of it raises
corrected_error(data) ==
    LET n == Len(data)
        x == Centred(data)
        tau == integrated_autocorr_time(data)
    IN  [mean |-> Fr(SumSeq(data), n),
         var |-> Fr(SumSeq([i \in 1..n |-> x[i] * x[i]]), n * n * (n - 1)),
         scale |-> Fr(2 * tau.n, n * tau.d)]

\* int(np.ceil(x)) of a finite x
Ceil(x) == -((-x.n) \div x.d)
Max2(x, y) == IF x >= y THEN x ELSE y

\* thin_data: data[::thin_interval].  The slice with step k >= 1 holds the
\* elements at 0, k, 2k, ... below len(data); a slice step of 0 raises.
thin_data_from_k(data, thin_interval) ==
    LET n == Len(data)
        Slice(k) ==
            IF k = 0 THEN [exc |-> Some("ValueError"), value |-> <<>>]
            ELSE [exc |-> None,
                  value |-> [j \in 1..(n \div k) |-> data[j * k]]]
    IN  IF IsNone(thin_interval)
        THEN Slice(Max2(1, Ceil(FMul(FInt(2), integrated_autocorr_time(data)))))
        ELSE Slice(Val(thin_interval))
thin_data(data, thin_interval) ==
    LET n == Len(data)
        Slice(k) ==
            IF k = 0 THEN [exc |-> Some("ValueError"), value |-> <<>>]
            ELSE [exc |-> None,
                  value |-> [j \in 1..((n + k - 1) \div k) |-> data[(j - 1) * k + 1]]]
    IN  IF IsNone(thin_interval)
        THEN Slice(Max2(1, Ceil(FMul(FInt(2), integrated_autocorr_time(data)))))
        ELSE Slice(Val(thin_interval))

\* ------------------------------------------------------------------ read_dat
\* An output file is [hbytes, nx, body, tail]: the bytes present of the
\* header record, the header's Nx, the complete body records and the bytes
\* of a last, incomplete record.  NoFile is a path that does not exist.
NoFile == [hbytes |-> -1, nx |-> 0, body |-> <<>>, tail |-> 0]
FileSize(f) == f.hbytes + Len(f.body) * (8 + 32 * f.nx) + f.tail

\* read_dat: the error raised, or the header's Nx and the body records.
\* np.fromfile returns the complete records only.
read_dat_no_upper(f) ==
    IF f = NoFile THEN [exc |-> Some("FileNotFoundError"), nx |-> 0, body |-> <<>>]
    ELSE IF FileSize(f) = 0 THEN [exc |-> Some("ValueError:empty"), nx |-> 0, body |-> <<>>]
    ELSE IF f.hbytes < HeaderBytes
         THEN [exc |-> Some("ValueError:header"), nx |-> 0, body |-> <<>>]
    ELSE IF ~(NxMin <= f.nx)
         THEN [exc |-> Some("ValueError:Nx"), nx |-> 0, body |-> <<>>]
    ELSE [exc |-> None, nx |-> f.nx, body |-> f.body]
read_dat(f) ==
    IF f = NoFile THEN [exc |-> Some("FileNotFoundError"), nx |-> 0, body |-> <<>>]
    ELSE IF FileSize(f) = 0 THEN [exc |-> Some("ValueError:empty"), nx |-> 0, body |-> <<>>]
    ELSE IF f.hbytes < HeaderBytes
         THEN [exc |-> Some("ValueError:header"), nx |-> 0, body |-> <<>>]
    ELSE IF ~(NxMin <= f.nx /\ f.nx <= NxMax)
         THEN [exc |-> Some("ValueError:Nx"), nx |-> 0, body |-> <<>>]
    ELSE [exc |-> None, nx |-> f.nx, body |-> f.body]

\* ------------------------------------------------------------------- inputs
\* an optional sweep range: all absent, only the start given, or a full
\* range from 0 with a zero, a tiny (1e-11) or a regular (1e-10) step
RangeChoices ==
    {[start |-> None, end |-> None, step |-> None],
     [start |-> Some(0), end |-> None, step |-> None]}
    \cup {[start |-> Some(0), end |-> Some(10 * k), step |-> Some(st)] :
            k \in 0..MaxPoints, st \in {0, 1, 10}}

SweepConfigOf(U, mu, mr, ur) ==
    [U |-> U, mu |-> mu,
     mu_start |-> mr.start, mu_end |-> mr.end, mu_step |-> mr.step,
     U_start |-> ur.start, U_end |-> ur.end, U_step |-> ur.step]

\* a configuration with exactly one sweep range that yields a grid point
Productive(c) ==
    /\ has_mu_sweep(c) # has_U_sweep(c)
    /\ sweep_values(c).kind = "ok"
    /\ sweep_values(c).values # <<>>

\* of the productive configurations only those are tried that leave the
\* swept parameter's scalar and the other parameter's range unset
Plain(c) ==
    IF sweep_param(c) = "mu"
    THEN IsNone(c.mu) /\ IsNone(c.U_start) /\ IsNone(c.U_end) /\ IsNone(c.U_step)
    ELSE IsNone(c.U) /\ IsNone(c.mu_start) /\ IsNone(c.mu_end) /\ IsNone(c.mu_step)

\* the SweepConfig constructor arguments tried; Config.sweep may be None
SweepChoices ==
    {None} \cup
    {Some(c) : c \in
        {d \in {SweepConfigOf(U, mu, mr, ur) :
                  U \in {None, Some(20)}, mu \in {None, Some(20)},
                  mr \in RangeChoices, ur \in RangeChoices} :
            Productive(d) => Plain(d)}}

\* the files the external binary may leave behind on exit code 0
EmptyFile == [hbytes |-> 0, nx |-> 0, body |-> <<>>, tail |-> 0]
OutputWith(N) ==
    [hbytes |-> HeaderBytes, nx |-> 1,
     body |-> [i \in 1..N |-> [a |-> << <<i, 0>> >>, a_ast |-> << <<i, 0>> >>]],
     tail |-> 0]
DatChoices == {NoFile, EmptyFile, OutputWith(0), OutputWith(1), OutputWith(2)}

\* -------------------------------------------------------------------- state
VARIABLES
    sweep,            \* Config.sweep as given: None or the SweepConfig fields
    max_workers_arg,  \* run_sweep's max_workers argument: None or a number
    phase,            \* where the dispatcher is
    err,              \* the exception that left run_sweep or the constructor
    param_grid,       \* the (U, mu) pairs, in submission order
    sweep_name,       \* "mu" or "U"
    max_workers,      \* the size of the worker pool
    fut,              \* job -> state of its future
    res,              \* job -> what its future holds
    child,            \* job -> state of its external process
    descr,            \* the descriptor files that exist
    datfiles,         \* output file path -> content
    points,           \* _execute_sweep's points
    failed,           \* _execute_sweep's failed
    drained,          \* the futures as_completed has yielded
    interrupted,      \* _execute_sweep's interrupted flag
    intr,             \* the workers with a KeyboardInterrupt not yet raised
    sigint,           \* a KeyboardInterrupt has reached the dispatcher
    late,             \* the jobs a worker took after that interrupt
    result,           \* the SweepResult returned: None or Some
    call,             \* a library function called on its own: None or Some
    ret,              \* what that call gave: None or Some
    worker,           \* the worker while it runs the external binary on its own
    proc,             \* the child process of that run
    pipes             \* the bytes in that child's stdout and stderr pipes

\* the state of a sweep, and with it the state of a call made outside one
svars == <<sweep, max_workers_arg, phase, err, param_grid, sweep_name,
           max_workers, fut, res, child, descr, datfiles, points, failed,
           drained, interrupted, intr, sigint, late, result>>
vars == <<sweep, max_workers_arg, phase, err, param_grid, sweep_name,
          max_workers, fut, res, child, descr, datfiles, points, failed,
          drained, interrupted, intr, sigint, late, result, call, ret,
          worker, proc, pipes>>

\* the state of one run of the external binary made outside a sweep
pvars == <<worker, proc, pipes>>

\* no such run is under way
NoProcess ==
    /\ worker = [pc |-> "none", handler |-> <<>>, interrupted |-> "no"]
    /\ proc = [state |-> "none", disp |-> "none", prog |-> <<>>,
               pending |-> None, returncode |-> None, signalled |-> {}]
    /\ pipes = [out |-> 0, err |-> 0]

Jobs == 1..Len(param_grid)

\* A string is the sequence of its characters (and of the literal pieces of
\* a format string).
Digit(d) == <<"0", "1", "2", "3", "4", "5", "6", "7", "8", "9">>[d + 1]
RECURSIVE Digits(_)
Digits(m) == IF m < 10 THEN <<Digit(m)>>
             ELSE Append(Digits(m \div 10), Digit(m % 10))
RECURSIVE Significand(_)
Significand(k) == IF k % 10 = 0 THEN Significand(k \div 10) ELSE k

\* f"{x}" of the float x = k * 1e-11 with 0 <= k < 10^7: "0.0" for zero,
\* else the shortest digits that give x back, in exponent notation since x
\* is below 1e-4: "2e-10", "1.5e-10", "1e-09"
Repr_fixed1(k) == <<"0", ".", "0">>
Repr(k) ==
    IF k = 0 THEN <<"0", ".", "0">>
    ELSE LET ds == Digits(Significand(k))
             ex == 11 - (Len(Digits(k)) - 1)
             exds == IF ex < 10 THEN <<"0">> \o Digits(ex) ELSE Digits(ex)
         IN  <<ds[1]>> \o (IF Len(ds) > 1 THEN <<".">> \o Tail(ds) ELSE <<>>)
                 \o <<"e", "-">> \o exds

\* run_single_point's file names: f"params_U={U}_mu={mu}.dat" and
\* f"U={U},mu={mu},s={sim.s_end}.dat" under output_dir
\* (the names of all parameter values that occur are worked out once)
Units == 0..(10 * MaxPoints + 20)
ReprOf == [k \in Units |-> Repr(k)]
params_filepaths ==
    [U \in Units |-> [mu \in Units |->
        <<"output_dir/", "params_U=">> \o ReprOf[U] \o <<"_mu=">> \o ReprOf[mu]
            \o <<".dat">>]]
dat_filepaths ==
    [U \in Units |-> [mu \in Units |->
        <<"output_dir/", "U=">> \o ReprOf[U] \o <<",mu=">> \o ReprOf[mu]
            \o <<",s=", "1d0", ".dat">>]]
params_filepath(U, mu) == params_filepaths[U][mu]
dat_filepath(U, mu) == dat_filepaths[U][mu]

\* str(e): the message of an exception; a CalledProcessError's message names
\* the command and the exit status, its stderr attribute is not part of it
\* A message is the sequence of the texts it is made of.
Str(e) == e.msg
Exc(type, msg) == [type |-> type, msg |-> <<msg>>, stderr |-> ""]
\* "Command '...' returned non-zero exit status 1."
CalledProcessErrorMsg == <<"Command", "sqm binary", "returned non-zero exit status", "1">>
\* text in message
Contains(message, text) == \E i \in DOMAIN message : message[i] = text

Init ==
    /\ sweep \in SweepChoices
    /\ max_workers_arg \in {None, Some(1), Some(2)}
    /\ phase = "new"
    /\ err = None
    /\ param_grid = <<>>
    /\ sweep_name = ""
    /\ max_workers = 0
    /\ fut = <<>>
    /\ res = <<>>
    /\ child = <<>>
    /\ descr = {}
    /\ datfiles = <<>>
    /\ points = <<>>
    /\ failed = <<>>
    /\ drained = {}
    /\ interrupted = FALSE
    /\ intr = {}
    /\ sigint = FALSE
    /\ late = {}
    /\ result = None
    /\ call = None
    /\ ret = None
    /\ NoProcess

\* Config(sweep=SweepConfig(...)): the dataclass constructor runs __post_init__
Construct ==
    /\ phase = "new"
    /\ UNCHANGED <<call, ret, pvars>>
    /\ LET e == IF IsNone(sweep) THEN None ELSE post_init(Val(sweep))
       IN  IF IsNone(e)
           THEN phase' = "configured" /\ err' = err
           ELSE phase' = "raised" /\ err' = e
    /\ UNCHANGED <<sweep, max_workers_arg, param_grid, sweep_name, max_workers,
                   fut, res, child, descr, datfiles, points, failed, drained,
                   interrupted, intr, sigint, late, result>>

\* ---------------------------------------------------------- run_sweep, start
\* run_sweep up to the creation of the worker pool in _execute_sweep: the
\* sweep check, _build_param_grid, the worker count, ProcessPoolExecutor(),
\* which rejects max_workers <= 0.
RunSweepStart ==
    /\ phase = "configured"
    /\ UNCHANGED <<call, ret, pvars>>
    /\ IF IsNone(sweep)
       THEN /\ phase' = "raised"
            /\ err' = Some("ValueError:no_sweep")
            /\ UNCHANGED <<param_grid, sweep_name, max_workers, fut, res, child>>
       ELSE LET g == build_param_grid(Val(sweep))
                n == Len(g.grid)
                mw == IF IsNone(max_workers_arg)
                      THEN (IF n < CpuCount THEN n ELSE CpuCount)
                      ELSE Val(max_workers_arg)
            IN  IF g.kind = "diverges"
                THEN /\ phase' = "hung"
                     /\ UNCHANGED <<err, param_grid, sweep_name, max_workers,
                                    fut, res, child>>
                ELSE IF g.kind # "ok"
                THEN /\ phase' = "raised"
                     /\ err' = Some(g.kind)
                     /\ UNCHANGED <<param_grid, sweep_name, max_workers,
                                    fut, res, child>>
                ELSE /\ param_grid' = g.grid
                     /\ sweep_name' = g.sweep_name
                     /\ max_workers' = mw
                     /\ fut' = [j \in 1..n |-> "unsubmitted"]
                     /\ res' = [j \in 1..n |-> None]
                     /\ child' = [j \in 1..n |-> "none"]
                     /\ IF mw <= 0
                        THEN phase' = "raised" /\ err' = Some("ValueError:max_workers")
                        ELSE /\ phase' = IF n = 0 THEN "draining" ELSE "submitting"
                             /\ err' = err
    /\ UNCHANGED <<sweep, max_workers_arg, descr, datfiles, points, failed,
                   drained, interrupted, intr, sigint, late, result>>

\* one executor.submit of the dict comprehension, in grid order
Submit ==
    /\ phase = "submitting"
    /\ UNCHANGED <<call, ret, pvars>>
    /\ \E j \in Jobs :
        /\ fut[j] = "unsubmitted"
        /\ \A i \in 1..(j - 1) : fut[i] # "unsubmitted"
        /\ fut' = [fut EXCEPT ![j] = "pending"]
        /\ phase' = IF j = Len(param_grid) THEN "draining" ELSE "submitting"
    /\ UNCHANGED <<sweep, max_workers_arg, err, param_grid, sweep_name,
                   max_workers, res, child, descr, datfiles, points, failed,
                   drained, interrupted, intr, sigint, late, result>>

\* ---------------------------------------------------------- run_single_point
\* show_progress = max_workers == 1
show_progress == max_workers = 1

\* the least sample count above which step 5 runs, and the samples that must
\* remain after the thermalization skip
min_samples == 20
min_trimmed == 10

\* "if not skip_autocorrelation and n_samples > 20"
runs_autocorrelation_any(skip_autocorrelation, n_samples) ==
    n_samples > min_samples
runs_autocorrelation(skip_autocorrelation, n_samples) ==
    ~skip_autocorrelation /\ n_samples > min_samples

\* step 5 with the statistics taken from the whole series
AutocorrelationStep_untrimmed(a_list, a_ast_list, Nx, skip_autocorrelation) ==
    LET n_samples == Len(a_list)
        mid == Nx \div 2
        absent == [exc |-> None, corrected_mean |-> None,
                   corrected_error_val |-> None, n_eff |-> None]
        Corrected(therm_skip, ce, ess) ==
            IF ~IsNone(ess.exc)
            THEN [absent EXCEPT !.exc = ess.exc] @@ [therm_skip |-> therm_skip]
            ELSE [exc |-> None,
                  corrected_mean |-> Some(ce.mean),
                  corrected_error_val |-> Some([var |-> ce.var, scale |-> ce.scale]),
                  n_eff |-> Some(ess.value),
                  therm_skip |-> therm_skip]
        Trimmed(therm_skip, trimmed) ==
            IF ~(therm_skip < n_samples - min_trimmed)
            THEN absent @@ [therm_skip |-> therm_skip]
            ELSE Corrected(therm_skip, corrected_error(trimmed),
                           effective_sample_size(trimmed))
        Skipping(midpoint_series, therm_skip) ==
            Trimmed(therm_skip, midpoint_series)
        Analysed(midpoint_series) ==
            Skipping(midpoint_series, detect_thermalization(midpoint_series, 10))
    IN  IF ~runs_autocorrelation(skip_autocorrelation, n_samples)
        THEN absent @@ [therm_skip |-> 0]
        ELSE Analysed([i \in 1..n_samples |->
                         ReMul(a_list[i][1], a_ast_list[i][mid + 1])])
\* step 5 of run_single_point on the samples: the corrected statistics, absent
\* unless the analysis ran, and the thermalization skip
AutocorrelationStep(a_list, a_ast_list, Nx, skip_autocorrelation) ==
    LET n_samples == Len(a_list)
        mid == Nx \div 2
        absent == [exc |-> None, corrected_mean |-> None,
                   corrected_error_val |-> None, n_eff |-> None]
        Corrected(therm_skip, ce, ess) ==
            IF ~IsNone(ess.exc)
            THEN [absent EXCEPT !.exc = ess.exc] @@ [therm_skip |-> therm_skip]
            ELSE [exc |-> None,
                  corrected_mean |-> Some(ce.mean),
                  corrected_error_val |-> Some([var |-> ce.var, scale |-> ce.scale]),
                  n_eff |-> Some(ess.value),
                  therm_skip |-> therm_skip]
        Trimmed(therm_skip, trimmed) ==
            IF ~(therm_skip < n_samples - min_trimmed)
            THEN absent @@ [therm_skip |-> therm_skip]
            ELSE Corrected(therm_skip, corrected_error(trimmed),
                           effective_sample_size(trimmed))
        Skipping(midpoint_series, therm_skip) ==
            Trimmed(therm_skip, SubSeq(midpoint_series, therm_skip + 1, n_samples))
        Analysed(midpoint_series) ==
            Skipping(midpoint_series, detect_thermalization(midpoint_series, 10))
    IN  IF ~runs_autocorrelation(skip_autocorrelation, n_samples)
        THEN absent @@ [therm_skip |-> 0]
        ELSE Analysed([i \in 1..n_samples |->
                         ReMul(a_list[i][1], a_ast_list[i][mid + 1])])

\* steps 3 to 5 of run_single_point on the output file f: read_dat,
\* compute_correlation, the autocorrelation analysis
Statistics(f, skip_autocorrelation) ==
    LET Result(rd, cc, ac) ==
            IF ~IsNone(cc.exc)
            THEN [exc |-> Some(Exc(Val(cc.exc), Val(cc.exc))), value |-> None]
            ELSE IF ~IsNone(ac.exc)
            THEN [exc |-> Some(Exc(Val(ac.exc), Val(ac.exc))), value |-> None]
            ELSE [exc |-> None,
                  value |-> Some([correlation_midpoint |-> cc.corr_mean[(rd.nx \div 2) + 1],
                             correlation_mean |-> cc.corr_mean,
                             correlation_err_sq |-> cc.corr_err_sq,
                             corrected_mean |-> ac.corrected_mean,
                             corrected_error_val |-> ac.corrected_error_val,
                             n_eff |-> ac.n_eff,
                             thermalization_skip |-> ac.therm_skip,
                             n_samples |-> Len(rd.body)])]
        Samples(rd, a_list, a_ast_list) ==
            Result(rd, compute_correlation(a_list, a_ast_list, rd.nx),
                   AutocorrelationStep(a_list, a_ast_list, rd.nx, skip_autocorrelation))
        Read(rd) ==
            IF ~IsNone(rd.exc)
            THEN [exc |-> Some(Exc(Val(rd.exc), Val(rd.exc))), value |-> None]
            ELSE Samples(rd, [i \in 1..Len(rd.body) |-> rd.body[i].a],
                             [i \in 1..Len(rd.body) |-> rd.body[i].a_ast])
    IN  Read(read_dat(f))

\* step 6: the PointResult of the point (U, mu) with those statistics
PointResultOf(U, mu, st) ==
    IF ~IsNone(st.exc) THEN st
    ELSE [exc |-> None, value |-> Some([U |-> U, mu |-> mu] @@ Val(st.value))]

\* steps 3 to 6 of run_single_point on the output file f
Analyse(U, mu, f, skip_autocorrelation) ==
    PointResultOf(U, mu, Statistics(f, skip_autocorrelation))

\* the statistics of the files a sweep may find, worked out once; the sweeps
\* tried pass run_sweep's default skip_autocorrelation=False
SweepStatistics == [f \in DatChoices |-> Statistics(f, FALSE)]

\* a worker that takes a job whatever the size of the pool
Pick_any(j) ==
    /\ fut[j] = "pending"
    /\ UNCHANGED <<call, ret, pvars>>
    /\ \A i \in 1..(j - 1) : fut[i] # "pending"
    /\ fut' = [fut EXCEPT ![j] = "running"]
    /\ late' = IF sigint THEN late \cup {j} ELSE late
    /\ UNCHANGED <<sweep, max_workers_arg, phase, err, param_grid, sweep_name,
                   max_workers, res, child, descr, datfiles, points, failed,
                   drained, interrupted, intr, sigint, result>>
\* a free worker takes the oldest pending job: its future becomes running
Pick(j) ==
    /\ fut[j] = "pending"
    /\ UNCHANGED <<call, ret, pvars>>
    /\ \A i \in 1..(j - 1) : fut[i] # "pending"
    /\ Cardinality({i \in Jobs : fut[i] = "running"}) < max_workers
    /\ fut' = [fut EXCEPT ![j] = "running"]
    /\ late' = IF sigint THEN late \cup {j} ELSE late
    /\ UNCHANGED <<sweep, max_workers_arg, phase, err, param_grid, sweep_name,
                   max_workers, res, child, descr, datfiles, points, failed,
                   drained, interrupted, intr, sigint, result>>

\* the worker runs run_single_point up to the point where it waits for the
\* external binary: write_params (outside the try), then the spawn (inside
\* it).  write_params may fail before or after
\* open() has created the file; a binary that cannot be started raises from
\* inside the try, so the finally removes the descriptor.
RunStart(j) ==
    /\ fut[j] = "running"
    /\ UNCHANGED <<call, ret, pvars>>
    /\ child[j] = "none"
    /\ LET U == param_grid[j][1]
           mu == param_grid[j][2]
       IN  \E w \in {"ok", "OSError:mkdir_or_open", "OSError:write"},
              started \in BOOLEAN :
             IF w # "ok"
             THEN /\ started
                  /\ descr' = IF w = "OSError:write"
                              THEN descr \cup {params_filepath(U, mu)}
                              ELSE descr
                  /\ fut' = [fut EXCEPT ![j] = "failed"]
                  /\ res' = [res EXCEPT ![j] = Some(Exc("OSError", w))]
                  /\ child' = child
             ELSE IF ~started
             THEN /\ descr' = descr \ {params_filepath(U, mu)}
                  /\ fut' = [fut EXCEPT ![j] = "failed"]
                  /\ res' = [res EXCEPT ![j] =
                               Some(Exc("FileNotFoundError", "FileNotFoundError:binary"))]
                  /\ child' = child
             ELSE /\ descr' = descr \cup {params_filepath(U, mu)}
                  /\ fut' = fut
                  /\ res' = res
                  /\ child' = [child EXCEPT ![j] = "running"]
    /\ UNCHANGED <<sweep, max_workers_arg, phase, err, param_grid, sweep_name,
                   max_workers, datfiles, points, failed, drained, interrupted,
                   intr, sigint, late, result>>

\* the external binary exits by itself with exit code `code`, having written
\* the output file f; the worker's wait returns, the finally removes the
\* descriptor, a non-zero code raises CalledProcessError (it carries the
\* captured stderr) and code 0 goes on to the analysis.
RunFinish(j) ==
    /\ child[j] = "running"
    /\ UNCHANGED <<call, ret, pvars>>
    /\ LET U == param_grid[j][1]
           mu == param_grid[j][2]
       IN  \E code \in {0, 1}, f \in DatChoices :
             /\ code # 0 => f = NoFile
             /\ child' = [child EXCEPT ![j] = "exited"]
             /\ descr' = descr \ {params_filepath(U, mu)}
             /\ datfiles' = IF f = NoFile THEN datfiles
                            ELSE (dat_filepath(U, mu) :> f) @@ datfiles
             /\ IF code # 0
                THEN /\ fut' = [fut EXCEPT ![j] = "failed"]
                     /\ res' = [res EXCEPT ![j] =
                          Some([type |-> "CalledProcessError",
                                msg |-> CalledProcessErrorMsg,
                                stderr |-> "stderr text"])]
                ELSE LET Completes(an) ==
                             IF IsNone(an.exc)
                             THEN /\ fut' = [fut EXCEPT ![j] = "succeeded"]
                                  /\ res' = [res EXCEPT ![j] = an.value]
                             ELSE /\ fut' = [fut EXCEPT ![j] = "failed"]
                                  /\ res' = [res EXCEPT ![j] = an.exc]
                     IN  Completes(PointResultOf(U, mu, SweepStatistics[f]))
    /\ intr' = intr \ {j}
    /\ UNCHANGED <<sweep, max_workers_arg, phase, err, param_grid, sweep_name,
                   max_workers, points, failed, drained, interrupted, sigint, late,
                   result>>

\* a KeyboardInterrupt is raised in a worker that waits for its binary: the
\* progress path terminates the child and waits for it, subprocess.run kills
\* it and waits; the finally removes the descriptor; the future holds the
\* KeyboardInterrupt.
WorkerInterrupted(j) ==
    /\ j \in intr
    /\ UNCHANGED <<call, ret, pvars>>
    /\ child[j] = "running"
    /\ child' = [child EXCEPT ![j] = IF show_progress THEN "terminated" ELSE "killed"]
    /\ descr' = descr \ {params_filepath(param_grid[j][1], param_grid[j][2])}
    /\ fut' = [fut EXCEPT ![j] = "failed"]
    /\ res' = [res EXCEPT ![j] = Some(Exc("KeyboardInterrupt", ""))]
    /\ intr' = intr \ {j}
    /\ UNCHANGED <<sweep, max_workers_arg, phase, err, param_grid, sweep_name,
                   max_workers, datfiles, points, failed, drained, interrupted,
                   sigint, late, result>>

\* ------------------------------------------------------- _execute_sweep loop
\* a cancel that also takes the futures that are running
CancelAll_running(fs) ==
    [j \in DOMAIN fs |-> IF fs[j] \in {"pending", "running"} THEN "cancelled" ELSE fs[j]]

\* f.cancel() on every future: only a pending future can be cancelled
CancelAll(fs) == [j \in DOMAIN fs |-> IF fs[j] = "pending" THEN "cancelled" ELSE fs[j]]

\* a handler that swallows the exception without recording it
AppendFailed_dropped(fl, j, e) == fl

\* a handler that records the parameters of the first grid point
AppendFailed_first(fl, j, e) == Append(fl, <<param_grid[1][1], param_grid[1][2], Str(e)>>)

\* failed.append((U, mu, str(e))) for the future of job j
AppendFailed(fl, j, e) == Append(fl, <<param_grid[j][1], param_grid[j][2], Str(e)>>)

\* as_completed yields the finished future of job j: future.result() either
\* returns the PointResult, appended to points, or raises; an Exception is
\* appended to failed as (U, mu, str(e)); a KeyboardInterrupt held by the
\* future is not an Exception and reaches the outer handler.
Drain(j) ==
    /\ phase = "draining"
    /\ UNCHANGED <<call, ret, pvars>>
    /\ j \in Jobs \ drained
    /\ fut[j] \in {"succeeded", "failed"}
    /\ drained' = drained \cup {j}
    /\ IF fut[j] = "succeeded"
       THEN /\ points' = Append(points, Val(res[j]))
            /\ UNCHANGED <<failed, fut, interrupted, phase, result>>
       ELSE IF Val(res[j]).type # "KeyboardInterrupt"
       THEN /\ failed' = AppendFailed(failed, j, Val(res[j]))
            /\ UNCHANGED <<points, fut, interrupted, phase, result>>
       ELSE /\ fut' = CancelAll(fut)
            /\ interrupted' = TRUE
            /\ phase' = "returned"
            /\ result' = Some([points |-> points, failed |-> failed])
            /\ UNCHANGED <<points, failed>>
    /\ UNCHANGED <<sweep, max_workers_arg, err, param_grid, sweep_name,
                   max_workers, res, child, descr, datfiles, intr, sigint, late>>

\* the key of points.sort in run_sweep
SortKey(p) == IF sweep_name = "mu" THEN p.mu ELSE p.U

\* list.sort is stable: an element goes after the elements whose key is not larger
RECURSIVE InsertSorted(_, _)
InsertSorted(s, x) ==
    IF s = <<>> THEN <<x>>
    ELSE IF SortKey(Head(s)) <= SortKey(x)
         THEN <<Head(s)>> \o InsertSorted(Tail(s), x)
         ELSE <<x>> \o s

RECURSIVE SortPoints(_)
SortPoints(s) ==
    IF s = <<>> THEN <<>>
    ELSE InsertSorted(SortPoints(SubSeq(s, 1, Len(s) - 1)), s[Len(s)])

\* the loop has yielded every future: shutdown(wait=True), then run_sweep
\* sorts the points and returns the SweepResult
Finish ==
    /\ phase = "draining"
    /\ UNCHANGED <<call, ret, pvars>>
    /\ drained = Jobs
    /\ phase' = "returned"
    /\ result' = Some([points |-> SortPoints(points), failed |-> failed])
    /\ UNCHANGED <<sweep, max_workers_arg, err, param_grid, sweep_name,
                   max_workers, fut, res, child, descr, datfiles, points,
                   failed, drained, interrupted, intr, sigint, late>>

\* ---------------------------------------------------------------- interrupt
\* A SIGINT raises KeyboardInterrupt in the dispatcher.  It was sent either
\* to the dispatcher alone or to the whole process group (grp); in the
\* second case the workers that wait for a binary receive it as well.
Signalled(grp) == IF grp THEN {j \in Jobs : child[j] = "running"} ELSE {}

\* KeyboardInterrupt inside as_completed: every future is cancelled,
\* interrupted is set, shutdown(wait=False, cancel_futures=True) does not
\* wait, and run_sweep returns the lists as they are.
InterruptDraining ==
    /\ phase = "draining"
    /\ UNCHANGED <<call, ret, pvars>>
    /\ \E grp \in BOOLEAN : intr' = Signalled(grp)
    /\ sigint' = TRUE
    /\ fut' = CancelAll(fut)
    /\ interrupted' = TRUE
    /\ phase' = "returned"
    /\ result' = Some([points |-> points, failed |-> failed])
    /\ UNCHANGED <<sweep, max_workers_arg, err, param_grid, sweep_name,
                   max_workers, res, child, descr, datfiles, points, failed,
                   drained, late>>

\* KeyboardInterrupt inside the dict comprehension: `futures` was never
\* bound, so the handler's `for f in futures` raises UnboundLocalError
\* before any cancel; interrupted is still False and the finally calls
\* shutdown(wait=True, cancel_futures=False), which waits for every
\* submitted job.
InterruptSubmitting ==
    /\ phase = "submitting"
    /\ UNCHANGED <<call, ret, pvars>>
    /\ \E grp \in BOOLEAN : intr' = Signalled(grp)
    /\ sigint' = TRUE
    /\ phase' = "shutdown_wait"
    /\ err' = Some("UnboundLocalError")
    /\ UNCHANGED <<sweep, max_workers_arg, param_grid, sweep_name, max_workers,
                   fut, res, child, descr, datfiles, points, failed, drained,
                   interrupted, late, result>>

\* shutdown(wait=True) returns once no submitted job is pending or running;
\* the UnboundLocalError then leaves run_sweep
ShutdownDone ==
    /\ phase = "shutdown_wait"
    /\ UNCHANGED <<call, ret, pvars>>
    /\ \A j \in Jobs : fut[j] \notin {"pending", "running"}
    /\ phase' = "raised"
    /\ UNCHANGED <<sweep, max_workers_arg, err, param_grid, sweep_name,
                   max_workers, fut, res, child, descr, datfiles, points,
                   failed, drained, interrupted, intr, sigint, late, result>>

Next ==
    \/ Construct
    \/ RunSweepStart
    \/ Submit
    \/ \E j \in Jobs : Pick(j)
    \/ \E j \in Jobs : RunStart(j)
    \/ \E j \in Jobs : RunFinish(j)
    \/ \E j \in Jobs : WorkerInterrupted(j)
    \/ \E j \in Jobs : Drain(j)
    \/ Finish
    \/ InterruptDraining
    \/ InterruptSubmitting
    \/ ShutdownDone

Spec == Init /\ [][Next]_vars

\* ------------------------------------------------------------------- claims
\* the entries of a list of PointResults, of a list of failures, for job j
PointsOf(ps, j) == {i \in 1..Len(ps) : <<ps[i].U, ps[i].mu>> = param_grid[j]}
FailedOf(fl, j) == {i \in 1..Len(fl) : <<fl[i][1], fl[i][2]>> = param_grid[j]}

\* a list of PointResults ascending by the swept parameter
Ascending(ps) ==
    \A i \in 1..(Len(ps) - 1) :
        (IF sweep_name = "mu" THEN ps[i].mu ELSE ps[i].U)
            <= (IF sweep_name = "mu" THEN ps[i + 1].mu ELSE ps[i + 1].U)

\* C1: when run_sweep returns without an interrupt, every grid point appears
\* exactly once in exactly one of points and failed of the SweepResult, so
\* len(points) + len(failed) = len(param_grid).
C1_GridPartition ==
    (phase = "returned" /\ ~interrupted) =>
        LET r == Val(result)
        IN  /\ Len(r.points) + Len(r.failed) = Len(param_grid)
            /\ \A j \in Jobs :
                 Cardinality(PointsOf(r.points, j))
                    + Cardinality(FailedOf(r.failed, j)) = 1

\* C1 witness: an uninterrupted sweep has returned successes and failures
C1_Witness ==
    /\ phase = "returned" /\ ~interrupted
    /\ Len(Val(result).points) >= 1
    /\ Len(Val(result).failed) >= 1

\* C2: without an interrupt, an exception of one point's pipeline is recorded
\* as one failed entry with that point's U and mu and the exception's
\* message, run_sweep does not raise once jobs exist, and on return every
\* point has run to its own success (a PointResult in points) or failure.
C2_FailureIsolated ==
    ~sigint =>
        /\ \A j \in drained :
             fut[j] = "failed" =>
                /\ Cardinality(FailedOf(failed, j)) = 1
                /\ \A i \in FailedOf(failed, j) :
                     failed[i] = <<param_grid[j][1], param_grid[j][2], Val(res[j]).msg>>
        /\ (phase = "raised" => \A j \in Jobs : fut[j] = "unsubmitted")
        /\ phase = "returned" =>
             \A j \in Jobs :
                /\ fut[j] \in {"succeeded", "failed"}
                /\ fut[j] = "succeeded" =>
                     \E i \in 1..Len(Val(result).points) :
                        Val(result).points[i] = Val(res[j])
                /\ fut[j] = "failed" =>
                     \E i \in 1..Len(Val(result).failed) :
                        Val(result).failed[i][3] = Val(res[j]).msg

\* C2 witness: the analysis of the second point raised, the sweep returned it
\* as a failure and the first point as a success
C2_Witness ==
    /\ phase = "returned" /\ ~sigint
    /\ Len(param_grid) >= 2
    /\ fut[1] = "succeeded"
    /\ fut[2] = "failed" /\ Val(res[2]).type = "ZeroDivisionError"

\* C3: the points of every SweepResult run_sweep returns are ascending in
\* the swept parameter.
C3_ReturnedPointsSorted ==
    phase = "returned" => Ascending(Val(result).points)

\* C4: an interrupt that reaches the dispatcher between the creation of the
\* pool and the end of draining never ends in run_sweep raising, and the
\* SweepResult returned holds everything recorded before it.
C4_InterruptReturnsPartial ==
    sigint =>
        /\ phase # "raised"
        /\ phase = "returned" =>
             Val(result).points = points /\ Val(result).failed = failed

\* C5: once run_sweep has returned the partial result of an interrupted
\* sweep, no external process of the sweep is still running.
C5_NoChildLeftRunning ==
    (phase = "returned" /\ interrupted) => \A j \in Jobs : child[j] # "running"

\* C6: after the dispatcher has had an interrupt no job is taken by a worker
\* any more, and when run_sweep is over no job is left pending.
C6_NoStartAfterInterrupt ==
    /\ late = {}
    /\ (sigint /\ phase \in {"returned", "raised"}) =>
          \A j \in Jobs : fut[j] # "pending"

\* C7: when run_single_point has returned or raised, the point's descriptor
\* file does not exist.
C7_DescriptorRemoved ==
    \A j \in Jobs :
        fut[j] \in {"succeeded", "failed"} =>
            params_filepath(param_grid[j][1], param_grid[j][2]) \notin descr

\* both parameters are given as sweep ranges, or neither is
BothOrNeither(c) ==
    LET mu_range == c.mu_start # None /\ c.mu_end # None /\ c.mu_step # None
        U_range == c.U_start # None /\ c.U_end # None /\ c.U_step # None
    IN  mu_range = U_range

\* C8: with both or neither of U and mu given as a sweep range, the sweep
\* ends in a ValueError of the configuration; no job is ever submitted and
\* no descriptor file is ever written.
C8_ConfigErrorBeforeDispatch ==
    (sweep # None /\ BothOrNeither(Val(sweep))) =>
        /\ phase \in {"new", "configured", "raised"}
        /\ phase = "raised" =>
             err \in {Some("ValueError:both_swept"), Some("ValueError:both_fixed"),
                      Some("ValueError:missing")}
        /\ fut = <<>>
        /\ descr = {}

\* C8 witness: neither range given and only U fixed; the constructor accepts
\* it and sweep_values raises inside run_sweep
C8_Witness ==
    /\ sweep # None /\ BothOrNeither(Val(sweep))
    /\ phase = "raised"
    /\ err = Some("ValueError:missing")

\* no job is recorded both in points and in failed
NotInBoth == \A j \in Jobs : PointsOf(points, j) = {} \/ FailedOf(failed, j) = {}

\* the steps of a job: Pending, Running, then one of three terminal states
StepsInOrder ==
    {<<"unsubmitted", "pending">>, <<"pending", "running">>,
     <<"running", "succeeded">>, <<"running", "failed">>,
     <<"running", "cancelled">>}

\* the steps of a job with the cancellation of a pending job
StepsOfFuture ==
    {<<"unsubmitted", "pending">>, <<"pending", "running">>,
     <<"running", "succeeded">>, <<"running", "failed">>,
     <<"pending", "cancelled">>}

\* C9 as stated: every job goes Pending, Running, then exactly one of
\* Succeeded, Failed, Cancelled, in that order only, and is never in both
\* lists.
C9_AsStated ==
    /\ []NotInBoth
    /\ [][\A j \in Jobs : fut'[j] # fut[j] => <<fut[j], fut'[j]>> \in StepsInOrder]_vars

\* C9 amended: a job goes Pending, Running, then Succeeded or Failed, or it
\* goes from Pending to Cancelled without running; terminal states are
\* final and no job is in both lists.
C9_JobLifecycle ==
    /\ []NotInBoth
    /\ [][\A j \in Jobs : fut'[j] # fut[j] => <<fut[j], fut'[j]>> \in StepsOfFuture]_vars

\* C9 witness: one job was recorded as a success, another was cancelled
C9_Witness ==
    \E j, k \in Jobs :
        /\ fut[j] = "cancelled"
        /\ fut[k] = "succeeded" /\ PointsOf(points, k) # {}

\* C10: a point whose output file holds fewer than 2 samples ends failed and
\* is never a PointResult.
C10_TooFewSamplesFail ==
    \A j \in Jobs :
        LET path == dat_filepath(param_grid[j][1], param_grid[j][2])
        IN  (/\ fut[j] \in {"succeeded", "failed"}
             /\ path \in DOMAIN datfiles
             /\ datfiles[path].hbytes = HeaderBytes
             /\ Len(datfiles[path].body) < 2)
            => (fut[j] = "failed" /\ PointsOf(points, j) = {})

\* =================================================== calls outside a sweep
\* The library functions are also called on their own.  Such a call is the
\* function's name with its arguments, drawn when the state is set up, and
\* the step that applies the function stores what it gave.
NoSweep ==
    /\ sweep = None
    /\ max_workers_arg = None
    /\ phase = "new"
    /\ err = None
    /\ param_grid = <<>>
    /\ sweep_name = ""
    /\ max_workers = 0
    /\ fut = <<>>
    /\ res = <<>>
    /\ child = <<>>
    /\ descr = {}
    /\ datfiles = <<>>
    /\ points = <<>>
    /\ failed = <<>>
    /\ drained = {}
    /\ interrupted = FALSE
    /\ intr = {}
    /\ sigint = FALSE
    /\ late = {}
    /\ result = None

Called(fn) == ~IsNone(call) /\ Val(call).fn = fn /\ IsNone(ret)
Returned(fn) == ~IsNone(call) /\ Val(call).fn = fn /\ ~IsNone(ret)

\* ------------------------------------------- run_single_point on its own
\* the largest number of samples in an output file
MaxSamples == 30

\* an output file of N samples on a one-site lattice whose midpoint series
\* is 1 for the first p samples and 0 after them
StepOutput(N, p) ==
    [hbytes |-> HeaderBytes, nx |-> 1,
     body |-> [i \in 1..N |-> [a |-> << <<1, 0>> >>,
                               a_ast |-> << <<IF i <= p THEN 1 ELSE 0, 0>> >>]],
     tail |-> 0]

PointCalls ==
    {[fn |-> "run_single_point", f |-> StepOutput(N, p), skip_autocorrelation |-> sk] :
        N \in 0..MaxSamples, p \in 0..MaxSamples, sk \in BOOLEAN}

InitPoint ==
    /\ NoSweep
    /\ NoProcess
    /\ call \in {Some(c) : c \in PointCalls}
    /\ ret = None

\* run_single_point once the binary has exited with code 0 and left f
RunSinglePoint ==
    /\ Called("run_single_point")
    /\ ret' = Some(Analyse(20, 20, Val(call).f, Val(call).skip_autocorrelation))
    /\ UNCHANGED <<svars, call, pvars>>

NextPoint == RunSinglePoint
SpecPoint == InitPoint /\ [][NextPoint]_vars

\* C11: a PointResult of run_single_point called with skip_autocorrelation
\* true, or on 20 samples or fewer, has corrected_mean, corrected_error_val
\* and n_eff all None and thermalization_skip 0; so corrected statistics are
\* present only if skip_autocorrelation is false and n_samples > 20.
C11_AnalysisGated ==
    (Returned("run_single_point") /\ ~IsNone(Val(ret).value)) =>
        LET r == Val(Val(ret).value)
        IN  (Val(call).skip_autocorrelation \/ r.n_samples <= 20) =>
                /\ r.corrected_mean = None
                /\ r.corrected_error_val = None
                /\ r.n_eff = None
                /\ r.thermalization_skip = 0

\* a call that opted out on 30 samples has returned its PointResult
C11_Witness ==
    /\ Returned("run_single_point")
    /\ Val(call).skip_autocorrelation
    /\ ~IsNone(Val(ret).value)
    /\ Val(Val(ret).value).n_samples = 30
    /\ Val(Val(ret).value).corrected_mean = None

\* C12: a point whose binary exited with a non-zero code is recorded once in
\* failed and not in points, every entry of failed belongs to a point that
\* itself failed, and the recorded message contains the stderr text captured
\* from the binary.
C12_FailureMessageHasStderr ==
    /\ \A i \in 1..Len(failed) :
         \E k \in drained : fut[k] = "failed" /\ i \in FailedOf(failed, k)
    /\ \A j \in drained :
         (fut[j] = "failed" /\ Val(res[j]).type = "CalledProcessError") =>
            /\ PointsOf(points, j) = {}
            /\ Cardinality(FailedOf(failed, j)) = 1
            /\ \A i \in FailedOf(failed, j) :
                 Contains(failed[i][3], Val(res[j]).stderr)

\* -------------------------------------------------------- read_dat on its own
\* the largest number of complete body records in a file read on its own
MaxRecords == 3

\* a body record of a lattice of nx sites, told apart by v
Record(nx, v) ==
    [a |-> [k \in 1..nx |-> <<v, 0>>], a_ast |-> [k \in 1..nx |-> <<v, 1>>]]
Bodies(nx) ==
    UNION {[1..N -> {Record(nx, 1), Record(nx, 2)}] : N \in 0..MaxRecords}

\* the bytes of a last, incomplete record: none, its length marker only, or
\* all but its last byte
Tails(nx) == {0, 4, (8 + 32 * nx) - 1}

\* the paths tried: a missing file, files that end inside the header record,
\* headers with an Nx in or out of range, and bodies of whole records with
\* or without a cut last record
ReaderFiles ==
    {NoFile}
    \cup {[hbytes |-> h, nx |-> 0, body |-> <<>>, tail |-> 0] : h \in {0, 16}}
    \cup {[hbytes |-> HeaderBytes, nx |-> x, body |-> <<>>, tail |-> t] :
             x \in {-1, 0, NxMax, NxMax + 1}, t \in {0, 4}}
    \cup UNION {{[hbytes |-> HeaderBytes, nx |-> x, body |-> b, tail |-> t] :
                    b \in Bodies(x), t \in Tails(x)} : x \in {1, 2}}

InitReader ==
    /\ NoSweep
    /\ NoProcess
    /\ call \in {Some([fn |-> "read_dat", f |-> f]) : f \in ReaderFiles}
    /\ ret = None

ReadDat ==
    /\ Called("read_dat")
    /\ ret' = Some(read_dat(Val(call).f))
    /\ UNCHANGED <<svars, call, pvars>>

NextReader == ReadDat
SpecReader == InitReader /\ [][NextReader]_vars

\* C13: read_dat rejects a file whose last body record is cut short with a
\* format error (a ValueError) instead of returning the records before it.
C13_TruncatedRecordRejected ==
    (Returned("read_dat") /\ Val(call).f.hbytes = HeaderBytes
        /\ Val(call).f.tail > 0) =>
        Val(ret).exc \in {Some("ValueError:header"), Some("ValueError:Nx"),
                          Some("ValueError:truncated")}

\* C14: read_dat raises FileNotFoundError on a missing path, the empty-file
\* error on a file of length 0, a format error on a file that ends inside the
\* header record or whose Nx is outside 1..1000, in each case returning
\* nothing; on any other file it returns the header's Nx and the complete
\* body records in file order.
C14_ReadDatOutcomes ==
    Returned("read_dat") =>
        LET f == Val(call).f
            r == Val(ret)
            nothing == r.nx = 0 /\ r.body = <<>>
        IN  IF f = NoFile THEN r.exc = Some("FileNotFoundError") /\ nothing
            ELSE IF FileSize(f) = 0 THEN r.exc = Some("ValueError:empty") /\ nothing
            ELSE IF f.hbytes < HeaderBytes
                 THEN r.exc = Some("ValueError:header") /\ nothing
            ELSE IF f.nx < 1 \/ f.nx > 1000
                 THEN r.exc = Some("ValueError:Nx") /\ nothing
            ELSE r.exc = None /\ r.nx = f.nx /\ r.body = f.body

\* a header with Nx = 1001 has been rejected, and so has nothing else here
C14_Witness ==
    /\ Returned("read_dat")
    /\ Val(call).f.hbytes = HeaderBytes
    /\ Val(call).f.nx = 1001
    /\ Val(ret).exc = Some("ValueError:Nx")

\* ------------------------------------- the autocorrelation functions on their own
\* the longest series and the largest absolute sample value tried
MaxLen == 4
MaxValue == 2

SeriesChoices ==
    UNION {[1..n -> (-MaxValue)..MaxValue] : n \in 1..MaxLen}

AutocorrCalls ==
    {[fn |-> "autocorrelation", data |-> d, max_lag |-> ml] :
        d \in SeriesChoices, ml \in {None} \cup {Some(k) : k \in 0..(MaxLen + 1)}}
    \cup {[fn |-> fn, data |-> d, max_lag |-> None] :
        fn \in {"integrated_autocorr_time", "effective_sample_size"},
        d \in SeriesChoices}

InitAutocorr ==
    /\ NoSweep
    /\ NoProcess
    /\ call \in {Some(c) : c \in AutocorrCalls}
    /\ ret = None

Autocorrelation ==
    /\ Called("autocorrelation")
    /\ ret' = Some(autocorrelation(Val(call).data, Val(call).max_lag))
    /\ UNCHANGED <<svars, call, pvars>>

IntegratedAutocorrTime ==
    /\ Called("integrated_autocorr_time")
    /\ ret' = Some(integrated_autocorr_time(Val(call).data))
    /\ UNCHANGED <<svars, call, pvars>>

EffectiveSampleSize ==
    /\ Called("effective_sample_size")
    /\ ret' = Some(effective_sample_size(Val(call).data))
    /\ UNCHANGED <<svars, call, pvars>>

NextAutocorr == Autocorrelation \/ IntegratedAutocorrTime \/ EffectiveSampleSize
SpecAutocorr == InitAutocorr /\ [][NextAutocorr]_vars

\* S(M) = 0.5 + rho(1) + ... + rho(M) for M in 0..min(n - 1, n // 2), and
\* the M of that range from 1 on with M >= 5 * S(M)
MaxLagOf(data) == Min2(Len(data) - 1, Len(data) \div 2)
S(data, M) ==
    LET rho == autocorrelation(data, Some(MaxLagOf(data)))
    IN  Fr(rho[1].d + 2 * SumSeq([k \in 1..M |-> rho[k + 1].n]), 2 * rho[1].d)
WindowsOf(data) ==
    {M \in 1..MaxLagOf(data) : M * S(data, M).d >= 5 * S(data, M).n}

\* C15: when some M in 1..min(n - 1, n // 2) has M >= 5 * S(M),
\* integrated_autocorr_time returns S(M*) for the smallest such M*.
C15_SmallestWindow ==
    (Returned("integrated_autocorr_time") /\ WindowsOf(Val(call).data) # {}) =>
        FEq(Val(ret), S(Val(call).data, MinOf(WindowsOf(Val(call).data))))

\* C16: when no M in 1..min(n - 1, n // 2) has M >= 5 * S(M),
\* integrated_autocorr_time returns S(min(n - 1, n // 2)).
C16_FallbackIsLastSum ==
    (Returned("integrated_autocorr_time") /\ WindowsOf(Val(call).data) = {}) =>
        FEq(Val(ret), S(Val(call).data, MaxLagOf(Val(call).data)))

\* C17: autocorrelation(data, max_lag) returns max_lag + 1 values, and
\* len(data) values when max_lag is omitted.
C17_OutputLength ==
    Returned("autocorrelation") =>
        Len(Val(ret)) = IF IsNone(Val(call).max_lag) THEN Len(Val(call).data)
                        ELSE Val(Val(call).max_lag) + 1

\* C18: effective_sample_size returns a value >= 1 for every non-empty
\* series.
C18_AtLeastOne ==
    Returned("effective_sample_size") =>
        /\ IsNone(Val(ret).exc)
        /\ Val(ret).value.n >= Val(ret).value.d

\* -------------------------------------------------------- jackknife on its own
\* the largest number of samples of a jackknife called on its own; the
\* samples are the whole numbers a float of MantissaBits bits holds exactly
MaxN == 3
SampleValues == 0..(Pow2(MantissaBits) - 1)

JackknifeCalls ==
    {[fn |-> "jackknife", arr |-> a] :
        a \in UNION {[1..n -> SampleValues] : n \in 0..MaxN}}

InitJackknife ==
    /\ NoSweep
    /\ NoProcess
    /\ call \in {Some(c) : c \in JackknifeCalls}
    /\ ret = None

\* jackknife on arbitrary real samples: every operation rounds
Jackknife ==
    /\ Called("jackknife")
    /\ ret' = Some(JackknifeRounding(Val(call).arr, "float"))
    /\ UNCHANGED <<svars, call, pvars>>

NextJackknife == Jackknife
SpecJackknife == InitJackknife /\ [][NextJackknife]_vars

\* C19: the jackknife error of N >= 2 samples that are all equal is exactly 0
\* (the part of the claim that is about the floats computed: the mean sum / N
\* and err^2 = (N - 1) * (1 / N) * sum((jk_i - mean)^2) are the code's own
\* expressions).
C19_EqualSamplesZeroError ==
    (/\ Returned("jackknife")
     /\ Len(Val(call).arr) >= 2
     /\ \A i \in DOMAIN Val(call).arr : Val(call).arr[i] = Val(call).arr[1]) =>
        /\ IsNone(Val(ret).exc)
        /\ Val(ret).err_sq.n = 0
        /\ Val(ret).err_sq.d # 0

\* C20: two distinct points of the grid have different descriptor paths and
\* different output paths, and so have any two jobs of the sweep, whose
\* points are distinct: no two jobs touch one file.
C20_DistinctPaths ==
    \A i \in Jobs : \A j \in Jobs :
        (i # j \/ param_grid[i] # param_grid[j]) =>
            /\ param_grid[i] # param_grid[j]
            /\ params_filepath(param_grid[i][1], param_grid[i][2])
                 # params_filepath(param_grid[j][1], param_grid[j][2])
            /\ dat_filepath(param_grid[i][1], param_grid[i][2])
                 # dat_filepath(param_grid[j][1], param_grid[j][2])
            /\ params_filepath(param_grid[i][1], param_grid[i][2])
                 # dat_filepath(param_grid[j][1], param_grid[j][2])

\* two jobs have their binaries running at the same time, each with its own
\* descriptor file
C20_Witness ==
    /\ Len(param_grid) >= 2
    /\ child[1] = "running" /\ child[2] = "running"
    /\ Cardinality(descr) = 2

\* ------------------------------- thin_data and detect_thermalization on their own
\* the longest series of zeros and ones given to detect_thermalization, the
\* largest window size and the largest thinning interval
MaxSeries == 9
MaxWindow == 3
MaxInterval == 5

BinarySeries == UNION {[1..n -> {0, 1}] : n \in 1..MaxSeries}

SeriesCalls ==
    {[fn |-> "thin_data", data |-> d, thin_interval |-> k, window_size |-> 0] :
        d \in SeriesChoices, k \in {None} \cup {Some(i) : i \in 0..MaxInterval}}
    \cup {[fn |-> "detect_thermalization", data |-> d, thin_interval |-> None,
           window_size |-> w] : d \in BinarySeries, w \in 1..MaxWindow}

InitSeries ==
    /\ NoSweep
    /\ NoProcess
    /\ call \in {Some(c) : c \in SeriesCalls}
    /\ ret = None

ThinData ==
    /\ Called("thin_data")
    /\ ret' = Some(thin_data(Val(call).data, Val(call).thin_interval))
    /\ UNCHANGED <<svars, call, pvars>>

DetectThermalization ==
    /\ Called("detect_thermalization")
    /\ ret' = Some(detect_thermalization(Val(call).data, Val(call).window_size))
    /\ UNCHANGED <<svars, call, pvars>>

NextSeries == ThinData \/ DetectThermalization
SpecSeries == InitSeries /\ [][NextSeries]_vars

\* the interval thin_data uses: the one given, or the least whole number
\* k >= 1 with 2 * tau_int <= k
IntervalOf(c) ==
    IF ~IsNone(c.thin_interval) THEN Val(c.thin_interval)
    ELSE LET tau == integrated_autocorr_time(c.data)
         IN  CHOOSE k \in 1..(2 * Len(c.data) + 2) :
                /\ 2 * tau.n <= k * tau.d
                /\ (k > 1 => 2 * tau.n > (k - 1) * tau.d)

\* C22: thin_data(data, k) with k >= 1, or with k omitted and then
\* k = max(1, ceil(2 * tau_int)) >= 1, returns data[0], data[k], data[2k],
\* ... in their order: ceil(n / k) elements, and the data itself for k = 1.
C22_EveryKth ==
    (Returned("thin_data")
        /\ (IsNone(Val(call).thin_interval) \/ Val(Val(call).thin_interval) >= 1)) =>
        LET data == Val(call).data
            k == IntervalOf(Val(call))
            out == Val(ret).value
        IN  /\ k >= 1
            /\ IsNone(Val(ret).exc)
            /\ Len(out) * k >= Len(data) /\ (Len(out) - 1) * k < Len(data)
            /\ \A j \in 1..Len(out) : out[j] = data[(j - 1) * k + 1]
            /\ (k = 1 => out = data)

\* a series that is not constant was thinned with an interval above 1 that
\* thin_data worked out from tau_int
C22_Witness ==
    /\ Returned("thin_data")
    /\ IsNone(Val(call).thin_interval)
    /\ Len(Val(call).data) >= 2
    /\ Val(call).data[1] # Val(call).data[2]
    /\ Len(Val(ret).value) < Len(Val(call).data)

\* the window means, their mean and variance over the later half, as
\* fractions
FMean(s) == FDivInt(FlSum(s, "exact"), Len(s))
FLe(x, y) == x.n * y.d <= y.n * x.d
WindowMeans(data, w) ==
    [i \in 1..(Len(data) \div w) |->
        Fr(SumSeq(SubSeq(data, (i - 1) * w + 1, i * w)), w)]
StationaryMeans(data, w) ==
    SubSeq(WindowMeans(data, w), ((Len(data) \div w) \div 2) + 1, Len(data) \div w)
Variance(s) == FMean([i \in 1..Len(s) |-> FMul(FSub(s[i], FMean(s)), FSub(s[i], FMean(s)))])

\* window i (from 0) has its mean within the threshold of the stationary
\* mean: within 3 standard deviations, or equal to it when these are 0
WithinThreshold(data, w, i) ==
    LET dev == FSub(WindowMeans(data, w)[i + 1], FMean(StationaryMeans(data, w)))
        var == Variance(StationaryMeans(data, w))
    IN  IF var.n = 0 THEN dev.n = 0
        ELSE FLe(FMul(dev, dev), FMul(FInt(9), var))

\* the window indices that start a run of min(3, n_windows // 3) windows
\* within the threshold
RunStarts(data, w) ==
    LET nw == Len(data) \div w
        nc == Min2(3, nw \div 3)
    IN  {i \in 0..(nw - nc) : \A q \in 0..(nc - 1) : WithinThreshold(data, w, i + q)}

\* the skip the description gives
ExpectedSkip(data, w) ==
    IF Len(data) < 2 * w \/ Len(data) \div w < 3 THEN 0
    ELSE IF RunStarts(data, w) # {} THEN MinOf(RunStarts(data, w)) * w
    ELSE ((Len(data) \div w) \div 2) * w

\* C25 as stated: detect_thermalization returns 0 on fewer than 2 * window_size
\* samples or fewer than 3 windows, else window_size times the smallest start
\* of a run, else the start of the later half; the result is a multiple of
\* window_size between 0 and n - window_size.
C25_AsStated ==
    Returned("detect_thermalization") =>
        /\ Val(ret) = ExpectedSkip(Val(call).data, Val(call).window_size)
        /\ Val(ret) % Val(call).window_size = 0
        /\ 0 <= Val(ret)
        /\ Val(ret) <= Len(Val(call).data) - Val(call).window_size

\* C25 amended: the same result, a multiple of window_size between 0 and
\* max(0, n - window_size): a series shorter than one window gives 0.
C25_SkipWithinSeries ==
    Returned("detect_thermalization") =>
        /\ Val(ret) = ExpectedSkip(Val(call).data, Val(call).window_size)
        /\ Val(ret) % Val(call).window_size = 0
        /\ 0 <= Val(ret)
        /\ Val(ret) <= Max2(0, Len(Val(call).data) - Val(call).window_size)

\* a run of three windows within the threshold was found past the first
\* window
C25_Witness ==
    /\ Returned("detect_thermalization")
    /\ Len(Val(call).data) \div Val(call).window_size >= 9
    /\ Val(ret) > 0
    /\ RunStarts(Val(call).data, Val(call).window_size) # {}

\* =========================================================== the sweep, again
\* SweepResult.success_rate, a fraction
success_rate_unguarded(r) ==
    Fr(Len(r.points), Len(r.points) + Len(r.failed))
success_rate(r) ==
    LET total == Len(r.points) + Len(r.failed)
    IN  IF total = 0 THEN FInt(0) ELSE Fr(Len(r.points), total)

\* success_rate of a SweepResult is len(points) / (len(points) + len(failed)),
\* 0.0 for two empty lists, and lies in [0, 1]
RateOk(r) ==
    LET sr == success_rate(r)
        np == Len(r.points)
        nf == Len(r.failed)
    IN  /\ sr.d > 0
        /\ (np + nf > 0 => sr.n * (np + nf) = np * sr.d)
        /\ (np + nf = 0 => sr.n = 0)
        /\ 0 <= sr.n /\ sr.n <= sr.d

\* C23: success_rate equals len(points) / (len(points) + len(failed)), is 0.0
\* when both lists are empty and lies in [0, 1], for the lists as they are
\* after every recorded success and failure and for every SweepResult
\* returned.
C23_SuccessRate ==
    /\ RateOk([points |-> points, failed |-> failed])
    /\ (phase = "returned" => RateOk(Val(result)))

\* a sweep has returned one success and one failure: the rate is 1/2
C23_Witness ==
    /\ phase = "returned"
    /\ Len(Val(result).points) = 1 /\ Len(Val(result).failed) = 1
    /\ FEq(success_rate(Val(result)), Fr(1, 2))

\* the worker pool exists
PoolCreated ==
    \/ phase \in {"submitting", "draining", "shutdown_wait", "returned"}
    \/ phase = "raised" /\ err = Some("UnboundLocalError")

EmptyRange ==
    /\ ~IsNone(sweep)
    /\ IsNone(post_init(Val(sweep)))
    /\ sweep_values(Val(sweep)).kind = "ok"
    /\ sweep_values(Val(sweep)).values = <<>>

\* C28: run_sweep on a range that yields no points, max_workers not given,
\* submits no job and returns a SweepResult with no points, no failures and
\* success_rate 0.0.
C28_EmptySweepReturns ==
    (EmptyRange /\ IsNone(max_workers_arg) /\ phase \notin {"new", "configured"}) =>
        /\ phase = "returned"
        /\ fut = <<>>
        /\ Val(result).points = <<>> /\ Val(result).failed = <<>>
        /\ success_rate(Val(result)).n = 0

\* ---------------------------------------------------- sweep_values on its own
\* the largest end of a range, in steps of 1e-10
MaxEnd == 3

\* ranges with a start on and off the 1e-10 grid, ends before and after the
\* start, steps that are negative, zero, below and above 1e-10, and a range
\* with no step
ValueRanges ==
    {[start |-> Some(a), end |-> Some(10 * k), step |-> Some(st)] :
        a \in {0, 3, 10}, k \in 0..MaxEnd, st \in {-10, 0, 1, 4, 5, 10, 15, 20}}
    \cup {[start |-> Some(0), end |-> Some(10), step |-> None]}

NoRange == [start |-> None, end |-> None, step |-> None]

SweepValuesCalls ==
    {[fn |-> "sweep_values", c |-> SweepConfigOf(Some(20), None, r, NoRange)] :
        r \in ValueRanges}
    \cup {[fn |-> "sweep_values", c |-> SweepConfigOf(None, Some(20), NoRange, r)] :
        r \in ValueRanges}

InitSweepValues ==
    /\ NoSweep
    /\ NoProcess
    /\ call \in {Some(c) : c \in SweepValuesCalls}
    /\ ret = None

\* sweep_values(): what it returns or raises; the kind "diverges" stands for
\* the call that never returns
SweepValues ==
    /\ Called("sweep_values")
    /\ ret' = Some(sweep_values(Val(call).c))
    /\ UNCHANGED <<svars, call, pvars>>

NextSweepValues == SweepValues
SpecSweepValues == InitSweepValues /\ [][NextSweepValues]_vars

\* the range of the swept parameter
RangeOf(c) ==
    IF sweep_param(c) = "mu"
    THEN [start |-> c.mu_start, end |-> c.mu_end, step |-> c.mu_step]
    ELSE [start |-> c.U_start, end |-> c.U_end, step |-> c.U_step]

\* C27: sweep_values terminates for every start, end and step > 0 and returns
\* the strictly ascending values start, start + step, ... below end, each
\* rounded to 10 decimals; a step <= 0 raises ValueError.
C27_SweepValuesTerminate ==
    (Returned("sweep_values") /\ ~IsNone(RangeOf(Val(call).c).step)) =>
        LET r == RangeOf(Val(call).c)
            v == Val(ret).values
        IN  IF Val(r.step) <= 0 THEN Val(ret).kind = "ValueError:step"
            ELSE /\ Val(ret).kind = "ok"
                 /\ \A i \in 1..(Len(v) - 1) : v[i] < v[i + 1]
                 /\ \A i \in 1..Len(v) : v[i] < Val(r.end)
                 /\ \A i \in 2..Len(v) : v[i] = Round10(v[i - 1] + Val(r.step))
                 /\ (v # <<>> => v[1] = Val(r.start))
                 /\ (v = <<>> => Val(r.start) >= Val(r.end))

\* ------------------------------------------- run_single_point on its own, again
\* the midpoint series of the samples of an output file
MidpointSeries(f) ==
    [i \in 1..Len(f.body) |-> ReMul(f.body[i].a[1], f.body[i].a_ast[(f.nx \div 2) + 1])]

\* what is left of a series without its first k values
Without(series, k) == SubSeq(series, k + 1, Len(series))

\* C30: in a PointResult corrected_mean, corrected_error_val and n_eff are
\* all None or all set; they are set exactly when the analysis ran (not
\* skipped, more than 20 samples) and thermalization_skip < n_samples - 10,
\* and are then the statistics of the midpoint series without its first
\* thermalization_skip samples.
C30_CorrectedTogether ==
    (Returned("run_single_point") /\ ~IsNone(Val(ret).value)) =>
        LET r == Val(Val(ret).value)
            trimmed == Without(MidpointSeries(Val(call).f), r.thermalization_skip)
            isset == ~IsNone(r.corrected_mean)
        IN  /\ isset = ~IsNone(r.corrected_error_val)
            /\ isset = ~IsNone(r.n_eff)
            /\ isset = (/\ ~Val(call).skip_autocorrelation
                        /\ r.n_samples > 20
                        /\ r.thermalization_skip < r.n_samples - 10)
            /\ isset =>
                 /\ Val(r.corrected_mean) = corrected_error(trimmed).mean
                 /\ Val(r.corrected_error_val).var = corrected_error(trimmed).var
                 /\ Val(r.corrected_error_val).scale = corrected_error(trimmed).scale
                 /\ Val(r.n_eff) = effective_sample_size(trimmed).value

\* a PointResult of 30 samples with the first 10 skipped has its corrected
\* statistics set
C30_Witness ==
    /\ Returned("run_single_point")
    /\ ~IsNone(Val(ret).value)
    /\ Val(Val(ret).value).n_samples = 30
    /\ Val(Val(ret).value).thermalization_skip = 10
    /\ ~IsNone(Val(Val(ret).value).corrected_mean)
    /\ ~IsNone(Val(Val(ret).value).n_eff)

\* ================================================ the external binary's run
\* Step 2 of run_single_point on its own: the worker starts the binary with
\* its pipes, follows its output (the progress path reads stdout line by line,
\* the plain path is subprocess.run, which reads both pipes), waits for its
\* exit and returns or raises.
\* the records a pipe holds before a write to it blocks, and the longest
\* sequence of writes of a binary
PipeCapacity == 2
MaxOutput == 3

\* preexec_fn=_reset_signals: signal.signal(SIGINT, SIG_DFL) in the child
reset_signals_keep(disposition) == disposition
reset_signals(disposition) == "SIG_DFL"

\* exec keeps an ignored signal ignored and resets a handled one
AfterExec(disposition) ==
    IF disposition = "SIG_IGN" THEN "SIG_IGN" ELSE "SIG_DFL"

\* "except KeyboardInterrupt: proc.terminate(); proc.wait(); raise"
KeyboardInterruptHandler_nowait == <<"terminate", "raise">>
KeyboardInterruptHandler == <<"terminate", "wait", "raise">>

\* subprocess.run on an exception: process.kill(), the wait of the with
\* block, and the exception goes on
RunInterruptHandler == <<"kill", "wait", "raise">>

\* what a binary does: a sequence of writes of one record each to stdout
\* ("out") or stderr ("err"), then its exit with a code
Programs == UNION {[1..n -> {"out", "err"}] : n \in 0..MaxOutput}

ProcessCalls ==
    {[fn |-> "run_fortran", show_progress |-> sp, inherited |-> d,
      prog |-> pr, code |-> c] :
        sp \in BOOLEAN, d \in {"SIG_IGN", "handler"}, pr \in Programs, c \in {0, 1}}

InitProcess ==
    /\ NoSweep
    /\ call \in {Some(c) : c \in ProcessCalls}
    /\ ret = None
    /\ worker = [pc |-> "start", handler |-> <<>>, interrupted |-> "no"]
    /\ proc = [state |-> "none", disp |-> "none", prog |-> <<>>,
               pending |-> None, returncode |-> None, signalled |-> {}]
    /\ pipes = [out |-> 0, err |-> 0]

Alive == proc.state = "running"

\* Popen forks: the child has the worker's SIGINT disposition
Fork ==
    /\ Called("run_fortran")
    /\ worker.pc = "start"
    /\ worker' = [worker EXCEPT !.pc = "popen"]
    /\ proc' = [proc EXCEPT !.state = "forked", !.disp = Val(call).inherited,
                            !.prog = Val(call).prog]
    /\ UNCHANGED <<svars, call, ret, pipes>>

\* the child calls preexec_fn
Preexec ==
    /\ proc.state = "forked"
    /\ proc' = [proc EXCEPT !.state = "preexec_done", !.disp = reset_signals(proc.disp)]
    /\ UNCHANGED <<svars, call, ret, worker, pipes>>

\* the child executes the binary and Popen returns: the progress path goes to
\* its readline loop, subprocess.run to communicate()
Exec ==
    /\ proc.state = "preexec_done"
    /\ proc' = [proc EXCEPT !.state = "running", !.disp = AfterExec(proc.disp)]
    /\ worker' = [worker EXCEPT !.pc = IF Val(call).show_progress
                                       THEN "reading" ELSE "communicating"]
    /\ UNCHANGED <<svars, call, ret, pipes>>

\* the binary's next write: it blocks while the pipe is full
ChildWrite ==
    /\ Alive
    /\ proc.pending = None
    /\ proc.prog # <<>>
    /\ pipes[Head(proc.prog)] < PipeCapacity
    /\ pipes' = [pipes EXCEPT ![Head(proc.prog)] = @ + 1]
    /\ proc' = [proc EXCEPT !.prog = Tail(proc.prog)]
    /\ UNCHANGED <<svars, call, ret, worker>>

\* the binary has written everything and exits, which closes its pipe ends
ChildExit ==
    /\ Alive
    /\ proc.pending = None
    /\ proc.prog = <<>>
    /\ proc' = [proc EXCEPT !.state = "exited", !.returncode = Some(Val(call).code)]
    /\ UNCHANGED <<svars, call, ret, worker, pipes>>

\* a signal that ends the binary is delivered
ChildSignalled ==
    /\ Alive
    /\ proc.pending # None
    /\ proc' = [proc EXCEPT !.state = "exited", !.returncode = Some(-1),
                            !.pending = None]
    /\ UNCHANGED <<svars, call, ret, worker, pipes>>

\* "for raw_line in iter(proc.stdout.readline, b'')": a line is read, or the
\* end of the pipe ends the loop; with neither, readline blocks.  stderr is
\* not read here.
ReadLine ==
    /\ worker.pc = "reading"
    /\ IF pipes.out > 0
       THEN /\ pipes' = [pipes EXCEPT !.out = @ - 1]
            /\ worker' = worker
       ELSE /\ ~Alive
            /\ worker' = [worker EXCEPT !.pc = "waiting"]
            /\ pipes' = pipes
    /\ UNCHANGED <<svars, call, ret, proc>>

\* communicate() of subprocess.run(capture_output=True): whatever either
\* pipe holds is read, until both have ended
Communicate ==
    /\ worker.pc = "communicating"
    /\ IF pipes.out > 0 \/ pipes.err > 0
       THEN /\ \E p \in {"out", "err"} :
                 /\ pipes[p] > 0
                 /\ pipes' = [pipes EXCEPT ![p] = @ - 1]
            /\ worker' = worker
       ELSE /\ ~Alive
            /\ worker' = [worker EXCEPT !.pc = "waiting"]
            /\ pipes' = pipes
    /\ UNCHANGED <<svars, call, ret, proc>>

\* proc.wait() returns when the child has exited; a non-zero return code
\* raises CalledProcessError (check=True on the plain path), after the
\* progress path has read stderr
WaitChild ==
    /\ worker.pc = "waiting"
    /\ ~Alive
    /\ IF Val(proc.returncode) # 0
       THEN /\ worker' = [worker EXCEPT !.pc = "raised"]
            /\ ret' = Some([exc |-> Some("CalledProcessError")])
            /\ pipes' = [pipes EXCEPT !.err = 0]
       ELSE /\ worker' = [worker EXCEPT !.pc = "returned"]
            /\ ret' = Some([exc |-> None])
            /\ pipes' = pipes
    /\ UNCHANGED <<svars, call, proc>>

\* A SIGINT: KeyboardInterrupt is raised in the worker; sent to the process
\* group (grp) it reaches the binary too, which it ends unless the binary
\* ignores it.  In the progress path the loop is inside the try and
\* proc.wait() after it is not; subprocess.run handles it throughout.
KeyboardInterrupt(grp) ==
    /\ worker.interrupted = "no"
    /\ worker.pc \in {"reading", "communicating", "waiting"}
    /\ proc' = IF grp /\ Alive /\ proc.disp = "SIG_DFL"
               THEN [proc EXCEPT !.pending = Some("SIGINT")]
               ELSE proc
    /\ IF worker.pc = "reading"
       THEN /\ worker' = [pc |-> "handling", handler |-> KeyboardInterruptHandler,
                          interrupted |-> worker.pc]
            /\ ret' = ret
       ELSE IF ~Val(call).show_progress
       THEN /\ worker' = [pc |-> "handling", handler |-> RunInterruptHandler,
                          interrupted |-> worker.pc]
            /\ ret' = ret
       ELSE /\ worker' = [pc |-> "raised", handler |-> <<>>,
                          interrupted |-> worker.pc]
            /\ ret' = Some([exc |-> Some("KeyboardInterrupt")])
    /\ UNCHANGED <<svars, call, pipes>>

\* the next statement of the handler: terminate() and kill() send a signal
\* to a child that has not been reaped, wait() returns once the child has
\* exited, raise leaves with the KeyboardInterrupt
HandlerStep ==
    /\ worker.pc = "handling"
    /\ worker.handler # <<>>
    /\ IF Head(worker.handler) \in {"terminate", "kill"}
       THEN /\ proc' = [proc EXCEPT
                          !.signalled = @ \cup {Head(worker.handler)},
                          !.pending = IF Alive THEN Some("SIGTERM") ELSE @]
            /\ worker' = [worker EXCEPT !.handler = Tail(@)]
            /\ ret' = ret
       ELSE IF Head(worker.handler) = "wait"
       THEN /\ ~Alive
            /\ worker' = [worker EXCEPT !.handler = Tail(@)]
            /\ UNCHANGED <<proc, ret>>
       ELSE /\ worker' = [worker EXCEPT !.pc = "raised", !.handler = <<>>]
            /\ ret' = Some([exc |-> Some("KeyboardInterrupt")])
            /\ proc' = proc
    /\ UNCHANGED <<svars, call, pipes>>

NextProcess ==
    \/ Fork
    \/ Preexec
    \/ Exec
    \/ ChildWrite
    \/ ChildExit
    \/ ChildSignalled
    \/ ReadLine
    \/ Communicate
    \/ WaitChild
    \/ \E grp \in BOOLEAN : KeyboardInterrupt(grp)
    \/ HandlerStep

SpecProcess == InitProcess /\ [][NextProcess]_vars

\* C21: a child spawned by run_single_point, on the progress path and on the
\* plain path, has the default SIGINT disposition from the end of preexec_fn
\* on: before it executes the binary and while the binary runs.
C21_DefaultSigint ==
    proc.state \in {"preexec_done", "running", "exited"} => proc.disp = "SIG_DFL"

\* the binary of a worker that ignores SIGINT runs on the plain path
C21_Witness ==
    /\ Called("run_fortran")
    /\ ~Val(call).show_progress
    /\ Val(call).inherited = "SIG_IGN"
    /\ proc.state = "running"
    /\ proc.disp = "SIG_DFL"

\* C26: on the progress path, when the KeyboardInterrupt that arrived in the
\* reading loop leaves the function, terminate() has been called on the child
\* and the child has exited; when CalledProcessError leaves it, the child has
\* exited with a non-zero code.
C26_TerminateThenWait ==
    (Returned("run_fortran") /\ Val(call).show_progress) =>
        /\ (Val(ret).exc = Some("KeyboardInterrupt") /\ worker.interrupted = "reading") =>
              /\ "terminate" \in proc.signalled
              /\ proc.state = "exited"
        /\ Val(ret).exc = Some("CalledProcessError") =>
              /\ proc.state = "exited"
              /\ Val(proc.returncode) # 0

\* a binary that was still running when the interrupt came has been
\* terminated and waited for, and the KeyboardInterrupt has left the function
C26_Witness ==
    /\ Returned("run_fortran")
    /\ Val(call).show_progress
    /\ Val(ret).exc = Some("KeyboardInterrupt")
    /\ worker.interrupted = "reading"
    /\ proc.returncode = Some(-1)
    /\ proc.prog # <<>>

\* the worker waits for a line of stdout and the binary for room in the
\* stderr pipe
Deadlocked ==
    /\ worker.pc = "reading"
    /\ pipes.out = 0
    /\ Alive
    /\ proc.pending = None
    /\ proc.prog # <<>>
    /\ pipes[Head(proc.prog)] = PipeCapacity

\* C29: on the progress path the worker and the binary never wait for each
\* other: whatever the binary writes to stdout and stderr, it is never blocked
\* on a write while the worker is blocked on its read.
C29_NoDeadlock ==
    (Called("run_fortran") /\ Val(call).show_progress) => ~Deadlocked

====
